---- MODULE Spec2Model ----
(***************************************************************************)
(* State machine of the ImageUploader component (src/src/App.tsx, lines    *)
(* 38-206): the React state of the component, the asynchronous work it     *)
(* starts (requests to /ask, FileReader reads, canvas.toBlob callbacks,    *)
(* getUserMedia calls) and the handlers that run when the user acts or     *)
(* when that work settles.  Each handler runs to its next await in one     *)
(* step, as the single-threaded event loop runs it.                        *)
(*                                                                         *)
(* The 3D viewer AR3DView (src/unnamed/part_003, lines 463-922) is a       *)
(* component of its own, with its own state and timers; ARSpec is its      *)
(* state machine.                                                          *)
(***************************************************************************)
EXTENDS Integers, FiniteSets, Sequences, TLC

\* Number of images the user produces (file selections and captures).
MaxImages == 2
\* Number of getUserMedia calls (Take Photo clicks).
MaxCameraCalls == 2

Images == 1..MaxImages
Streams == 1..MaxCameraCalls

\* useState(null): no answer / no selected image; a ref with no stream.
NULL == [null |-> TRUE]
NoImage == 0
NoStream == 0

\* The constant instruction string of formData.append('question', ...).
Question == "Can you review this image and solve the question with step by step reasoning?"

\* The path of axios.post.
Endpoint == "/ask"

\* The answer synthesized in the catch block of uploadImage.
FailAnswer == [status |-> "error", answer |-> "Failed to process the image. Please try again."]

\* Diagram texts, as sequences of characters: a vector-image document, a
\* document cut off in the middle of a tag, the empty string and a string of
\* whitespace only.
SvgDocument == <<"<", "s", "v", "g", "/", ">">>
MalformedSvg == <<"<", "s", "v", "g", " ", "<">>
EmptyText == <<>>
BlankText == <<" ", "\n">>

\* Bodies the server can return with a 2xx status: Answer documents (the
\* diagram field is optional) ...
ServerAnswers ==
    { [status |-> "success", answer |-> "The answer is $x=2$."],
      [status |-> "success", answer |-> "See diagram.", diagram |-> SvgDocument],
      [status |-> "success", answer |-> "No diagram.", diagram |-> EmptyText],
      [status |-> "success", answer |-> "Blank diagram.", diagram |-> BlankText],
      [status |-> "success", answer |-> "Broken diagram.", diagram |-> MalformedSvg],
      [status |-> "error", answer |-> "Cannot read the question.", diagram |-> SvgDocument] }

\* ... and a body that is no Answer document (text that is not JSON, which
\* the HTTP client hands over as it is, or JSON of another shape).
MalformedBody == [raw |-> "<html>Bad Gateway</html>"]

\* How the POST can end: a 2xx response with an Answer document, a 2xx
\* response with a malformed body, a non-2xx status, a network failure.
Outcomes ==
    { [kind |-> "ok", data |-> d] : d \in ServerAnswers }
    \cup { [kind |-> "malformed", data |-> MalformedBody],
           [kind |-> "status", data |-> NULL],
           [kind |-> "network", data |-> NULL] }

VARIABLES
    selectedImage,  \* useState: preview of image n (NoImage: null)
    answer,         \* useState: NULL or what setAnswer stored
    loading,        \* useState
    showCamera,     \* useState; the <video> element is mounted iff TRUE
    videoSrc,       \* videoRef.current.srcObject (NoStream: null or no element)
    liveStreams,    \* streams acquired whose tracks are not stopped
    nStreams,       \* getUserMedia calls made so far
    pendingCam,     \* getUserMedia calls not yet settled
    nImages,        \* images produced so far
    reads,          \* FileReader reads in progress (image ids)
    blobs,          \* canvas.toBlob callbacks not yet run
    upl,            \* per image: the uploadImage invocation for it
    mounted,        \* the component is mounted
    lastStream,     \* history: the stream of the latest successful getUserMedia
    last,           \* history: the handler that ran last, the UI state before it,
                    \* and what it got (requestCompletes) or did (captureImage)
    showAR,         \* ViewOptions useState: AR3DView is mounted iff TRUE
    isModelVisible, \* AR3DView useState
    extrusion,      \* AR3DView useState, in steps of the slider
    debugInfo,      \* AR3DView useState ("": null)
    forceTimer,     \* the 5000 ms timer of the visibility effect is pending
    canvasTimer,    \* the 1000 ms timer of Canvas onCreated: "none", "pending", "fired"
    choice,         \* history: what the user chose last, "none", "hide" or "show"
    arLast          \* history: the AR3DView handler that ran last

uploaderVars == <<selectedImage, answer, loading, showCamera, videoSrc, liveStreams,
                  nStreams, pendingCam, nImages, reads, blobs, upl, mounted,
                  lastStream, last>>

arVars == <<showAR, isModelVisible, extrusion, debugInfo, forceTimer, canvasTimer,
            choice, arLast>>

vars == <<uploaderVars, arVars>>

\* The Extrusion Depth slider: min 0.5, max 10, step 0.5, counted in steps,
\* and the initial value 2.
ExtrusionMin == 1
ExtrusionMax == 20
ExtrusionDefault == 4

\* An uploadImage invocation that has not happened.
\* overtaken and stored are history: another submission started while this
\* one was in flight; this one's result was stored in answer.  src and blob
\* are history too: where the image came from ("file", "capture") and
\* what toBlob handed to its callback ("pending", "blob", "null").
\* req is the request sent (NULL: none yet).
NoUpload == [st |-> "none", sent |-> 0, writes |-> 0, escaped |-> FALSE,
             req |-> NULL,
             overtaken |-> FALSE, stored |-> FALSE, src |-> "", blob |-> ""]

\* The three UI states of the spec, and the state outside them.
Phase ==
    IF loading /\ answer = NULL THEN "Loading"
    ELSE IF ~loading /\ answer = NULL THEN "Idle"
    ELSE IF ~loading /\ answer # NULL THEN "Presented"
    ELSE "Mixed"

InFlight == {u \in Images : upl[u].st = "inflight"}

Init ==
    /\ selectedImage = NoImage
    /\ answer = NULL
    /\ loading = FALSE
    /\ showCamera = FALSE
    /\ videoSrc = NoStream
    /\ liveStreams = {}
    /\ nStreams = 0
    /\ pendingCam = {}
    /\ nImages = 0
    /\ reads = {}
    /\ blobs = {}
    /\ upl = [u \in Images |-> NoUpload]
    /\ mounted = TRUE
    /\ lastStream = NoStream
    /\ last = [op |-> "init", pre |-> "Idle", img |-> NoImage, kind |-> "", data |-> NULL]
    /\ showAR = FALSE
    /\ isModelVisible = FALSE
    /\ extrusion = ExtrusionDefault
    /\ debugInfo = ""
    /\ forceTimer = FALSE
    /\ canvasTimer = "none"
    /\ choice = "none"
    /\ arLast = "init"

Event(op, img, kind, data) ==
    [op |-> op, pre |-> Phase, img |-> img, kind |-> kind, data |-> data]

\* uploadImage leaving the question out of the form.
Request_NoQuestion(payload) ==
    [method |-> "POST", path |-> Endpoint, form |-> [image |-> payload]]

\* The request uploadImage(payload) builds: a FormData with the fields image
\* and question, posted to /ask as multipart/form-data.
Request(payload) ==
    [method |-> "POST", path |-> Endpoint,
     form |-> [image |-> payload, question |-> Question]]

\* uploadImage cancelling the request of the previous submission.
SendRequest_AbortsPrevious(u) ==
    [v \in Images |->
        IF v = u
        THEN [upl[v] EXCEPT !.st = "inflight", !.sent = @ + 1, !.req = Request(u)]
        ELSE [upl[v] EXCEPT !.st = IF @ = "inflight" THEN "aborted" ELSE @]]

\* uploadImage posting the form a second time.
SendRequest_Twice(u) ==
    [v \in Images |->
        IF v = u
        THEN [upl[v] EXCEPT !.st = "inflight", !.sent = @ + 2, !.req = Request(u)]
        ELSE [upl[v] EXCEPT !.overtaken = @ \/ upl[v].st = "inflight"]]

\* uploadImage up to its await: setLoading(true), the form with the two
\* fields, the POST.
SendRequest(u) ==
    [v \in Images |->
        IF v = u
        THEN [upl[v] EXCEPT !.st = "inflight", !.sent = @ + 1, !.req = Request(u)]
        ELSE [upl[v] EXCEPT !.overtaken = @ \/ upl[v].st = "inflight"]]

\* handleFileSelect without setAnswer(null).
handleFileSelect_KeepsAnswer ==
    /\ mounted
    /\ UNCHANGED arVars
    /\ UNCHANGED <<mounted, lastStream>>
    /\ ~showCamera
    /\ nImages < MaxImages
    /\ LET f == nImages + 1 IN
        /\ nImages' = f
        /\ loading' = TRUE
        /\ reads' = reads \cup {f}
        /\ upl' = [SendRequest(f) EXCEPT ![f].src = "file"]
        /\ last' = Event("handleFileSelect", f, "", NULL)
    /\ UNCHANGED <<selectedImage, answer, showCamera, videoSrc, liveStreams, nStreams,
                   pendingCam, blobs>>

\* handleFileSelect with a file: clear the answer, set loading, start the
\* FileReader, call uploadImage(file).
handleFileSelect ==
    /\ mounted
    /\ UNCHANGED arVars
    /\ UNCHANGED <<mounted, lastStream>>
    /\ ~showCamera
    /\ nImages < MaxImages
    /\ LET f == nImages + 1 IN
        /\ nImages' = f
        /\ answer' = NULL
        /\ loading' = TRUE
        /\ reads' = reads \cup {f}
        /\ upl' = [SendRequest(f) EXCEPT ![f].src = "file"]
        /\ last' = Event("handleFileSelect", f, "", NULL)
    /\ UNCHANGED <<selectedImage, showCamera, videoSrc, liveStreams, nStreams,
                   pendingCam, blobs>>

\* The file-chooser change event with no file: event.target.files?.[0] is
\* undefined and the body of the if is skipped.
handleFileSelectNoFile ==
    /\ mounted
    /\ UNCHANGED arVars
    /\ UNCHANGED <<mounted, lastStream>>
    /\ ~showCamera
    /\ last' = Event("handleFileSelectNoFile", NoImage, "", NULL)
    /\ UNCHANGED <<selectedImage, answer, loading, showCamera, videoSrc, liveStreams,
                   nStreams, pendingCam, nImages, reads, blobs, upl>>

\* reader.onloadend: the preview becomes reader.result, the data URL of the
\* file (the handler takes it to be a string; a failed read is not followed).
readerLoadEnd(f) ==
    /\ mounted
    /\ UNCHANGED arVars
    /\ UNCHANGED <<mounted, lastStream>>
    /\ f \in reads
    /\ reads' = reads \ {f}
    /\ selectedImage' = f
    /\ last' = Event("readerLoadEnd", f, "result", NULL)
    /\ UNCHANGED <<answer, loading, showCamera, videoSrc, liveStreams, nStreams,
                   pendingCam, nImages, blobs, upl>>

\* startCamera up to its await: the Take Photo button is rendered only
\* while showCamera is false, and it is not disabled while a call is pending.
startCamera ==
    /\ mounted
    /\ UNCHANGED arVars
    /\ UNCHANGED <<mounted, lastStream>>
    /\ ~showCamera
    /\ nStreams < MaxCameraCalls
    /\ nStreams' = nStreams + 1
    /\ pendingCam' = pendingCam \cup {nStreams + 1}
    /\ last' = Event("startCamera", NoImage, "", NULL)
    /\ UNCHANGED <<selectedImage, answer, loading, showCamera, videoSrc, liveStreams,
                   nImages, reads, blobs, upl>>

\* startCamera without setAnswer(null).
getUserMediaResolves_KeepsAnswer(s) ==
    /\ mounted
    /\ UNCHANGED arVars
    /\ UNCHANGED mounted
    /\ s \in pendingCam
    /\ pendingCam' = pendingCam \ {s}
    /\ liveStreams' = liveStreams \cup {s}
    /\ lastStream' = s
    /\ videoSrc' = IF showCamera THEN s ELSE videoSrc
    /\ showCamera' = TRUE
    /\ last' = Event("getUserMediaResolves", NoImage, "", NULL)
    /\ UNCHANGED <<selectedImage, answer, loading, nStreams, nImages, reads, blobs, upl>>

\* getUserMedia resolved with stream s.  videoRef.current is the <video>
\* element, which exists only while showCamera is true: the stream becomes
\* its srcObject only then.
getUserMediaResolves(s) ==
    /\ mounted
    /\ UNCHANGED arVars
    /\ UNCHANGED mounted
    /\ s \in pendingCam
    /\ pendingCam' = pendingCam \ {s}
    /\ liveStreams' = liveStreams \cup {s}
    /\ lastStream' = s
    /\ videoSrc' = IF showCamera THEN s ELSE videoSrc
    /\ showCamera' = TRUE
    /\ answer' = NULL
    /\ last' = Event("getUserMediaResolves", NoImage, "", NULL)
    /\ UNCHANGED <<selectedImage, loading, nStreams, nImages, reads, blobs, upl>>

\* startCamera reporting the camera failure as an error answer.
getUserMediaRejects_ShowsError(s) ==
    /\ mounted
    /\ UNCHANGED arVars
    /\ UNCHANGED <<mounted, lastStream>>
    /\ s \in pendingCam
    /\ pendingCam' = pendingCam \ {s}
    /\ answer' = FailAnswer
    /\ last' = Event("getUserMediaRejects", NoImage, "", NULL)
    /\ UNCHANGED <<selectedImage, loading, showCamera, videoSrc, liveStreams,
                   nStreams, nImages, reads, blobs, upl>>

\* getUserMedia rejected: the catch block logs the error.
getUserMediaRejects(s) ==
    /\ mounted
    /\ UNCHANGED arVars
    /\ UNCHANGED <<mounted, lastStream>>
    /\ s \in pendingCam
    /\ pendingCam' = pendingCam \ {s}
    /\ last' = Event("getUserMediaRejects", NoImage, "", NULL)
    /\ UNCHANGED <<selectedImage, answer, loading, showCamera, videoSrc, liveStreams,
                   nStreams, nImages, reads, blobs, upl>>

\* The statements of captureImage in the order they run, for a video element
\* whose srcObject is the given stream: the frame is drawn and handed to
\* toBlob, then the tracks are stopped and the preview is closed; with no
\* stream, stream.getTracks() throws.
captureImageSteps(srcObject) ==
    << "setAnswer", "setLoading", "drawImage", "toBlob" >>
    \o (IF srcObject = NoStream
        THEN << "TypeError" >>
        ELSE << "stop", "setShowCamera" >>)

\* captureImage: the Capture button is rendered with the <video> element,
\* so videoRef.current is set.  The canvas takes the video's dimensions,
\* which are 0 when the element has no stream or no frame yet.  When
\* srcObject is null, stream.getTracks() throws a TypeError and the rest of
\* the handler (setShowCamera(false)) does not run.
captureImage ==
    /\ mounted
    /\ UNCHANGED arVars
    /\ UNCHANGED <<mounted, lastStream>>
    /\ showCamera
    /\ nImages < MaxImages
    /\ LET c == nImages + 1 IN
        /\ nImages' = c
        /\ answer' = NULL
        /\ loading' = TRUE
        /\ \E frame \in (IF videoSrc # NoStream THEN BOOLEAN ELSE {FALSE}) :
              blobs' = blobs \cup {[img |-> c, frame |-> frame]}
        /\ upl' = [upl EXCEPT ![c].src = "capture", ![c].blob = "pending"]
        /\ IF "setShowCamera" \notin {captureImageSteps(videoSrc)[i] :
                                         i \in DOMAIN captureImageSteps(videoSrc)}
           THEN /\ UNCHANGED <<showCamera, videoSrc, liveStreams>>
                /\ last' = Event("captureImage", c, "TypeError", captureImageSteps(videoSrc))
           ELSE /\ liveStreams' = liveStreams \ {videoSrc}
                /\ showCamera' = FALSE
                /\ videoSrc' = NoStream
                /\ last' = Event("captureImage", c, "stopped", captureImageSteps(videoSrc))
    /\ UNCHANGED <<selectedImage, nStreams, pendingCam, reads>>

\* The callback of canvas.toBlob setting the preview before it tests the blob.
toBlobCallback_PreviewFirst(b) ==
    /\ mounted
    /\ UNCHANGED arVars
    /\ UNCHANGED <<mounted, lastStream>>
    /\ b \in blobs
    /\ blobs' = blobs \ {b}
    /\ selectedImage' = b.img
    /\ \E blob \in (IF b.frame THEN BOOLEAN ELSE {FALSE}) :
        IF blob
        THEN /\ loading' = TRUE
             /\ upl' = [SendRequest(b.img) EXCEPT ![b.img].blob = "blob"]
             /\ last' = Event("toBlobCallback", b.img, "blob", NULL)
        ELSE /\ UNCHANGED loading
             /\ upl' = [upl EXCEPT ![b.img].blob = "null"]
             /\ last' = Event("toBlobCallback", b.img, "null", NULL)
    /\ UNCHANGED <<answer, showCamera, videoSrc, liveStreams, nStreams, pendingCam,
                   nImages, reads>>

\* The callback of canvas.toBlob: the blob is null for a canvas without
\* pixels or when the image cannot be encoded; otherwise the preview is set
\* and uploadImage(blob) is called.
toBlobCallback(b) ==
    /\ mounted
    /\ UNCHANGED arVars
    /\ UNCHANGED <<mounted, lastStream>>
    /\ b \in blobs
    /\ blobs' = blobs \ {b}
    /\ \E blob \in (IF b.frame THEN BOOLEAN ELSE {FALSE}) :
        IF blob
        THEN /\ selectedImage' = b.img
             /\ loading' = TRUE
             /\ upl' = [SendRequest(b.img) EXCEPT ![b.img].blob = "blob"]
             /\ last' = Event("toBlobCallback", b.img, "blob", NULL)
        ELSE /\ UNCHANGED <<selectedImage, loading>>
             /\ upl' = [upl EXCEPT ![b.img].blob = "null"]
             /\ last' = Event("toBlobCallback", b.img, "null", NULL)
    /\ UNCHANGED <<answer, showCamera, videoSrc, liveStreams, nStreams, pendingCam,
                   nImages, reads>>

\* Whether the promise of axios.post rejects: on a network failure and on
\* a status outside 2xx.  A 2xx response resolves whatever its body is.
Rejects(o) == o.kind \in {"network", "status"}

\* uploadImage with setLoading(false) at the end of the try block instead of
\* a finally block.
uploadImageCompletion_NoFinally(o) ==
    [ writes  |-> IF Rejects(o) THEN <<FailAnswer>> ELSE <<o.data>>,
      loading |-> IF Rejects(o) THEN loading ELSE FALSE,
      escaped |-> FALSE ]

\* uploadImage storing only the status and the text of the response.
uploadImageCompletion_DropsDiagram(o) ==
    [ writes  |-> IF Rejects(o) THEN <<FailAnswer>>
                  ELSE IF o.kind = "ok"
                       THEN <<[status |-> o.data.status, answer |-> o.data.answer]>>
                       ELSE <<o.data>>,
      loading |-> FALSE,
      escaped |-> FALSE ]

\* uploadImage without its catch block.
uploadImageCompletion_NoCatch(o) ==
    [ writes  |-> IF Rejects(o) THEN <<>> ELSE <<o.data>>,
      loading |-> FALSE,
      escaped |-> Rejects(o) ]

\* uploadImage after its await: the calls of setAnswer in the try and the
\* catch block, the setLoading(false) of the finally block, and whether the
\* failure leaves uploadImage as a rejected promise.
uploadImageCompletion(o) ==
    [ writes  |-> IF Rejects(o) THEN <<FailAnswer>> ELSE <<o.data>>,
      loading |-> FALSE,
      escaped |-> FALSE ]

\* The request of upload u ends with outcome o.  setAnswer and
\* setLoading(false) run in one continuation, with no await between them.
requestCompletes(u, o) ==
    /\ mounted
    /\ UNCHANGED arVars
    /\ UNCHANGED <<mounted, lastStream>>
    /\ u \in InFlight
    /\ LET c == uploadImageCompletion(o) IN
        /\ answer' = IF c.writes = <<>> THEN answer ELSE c.writes[Len(c.writes)]
        /\ loading' = c.loading
        /\ upl' = [upl EXCEPT ![u] = [@ EXCEPT !.st = "done",
                                                !.writes = @ + Len(c.writes),
                                                !.stored = c.writes # <<>>,
                                                !.escaped = c.escaped]]
        /\ last' = Event("requestCompletes", u, o.kind, o.data)
    /\ UNCHANGED <<selectedImage, showCamera, videoSrc, liveStreams, nStreams,
                   pendingCam, nImages, reads, blobs>>

\* Reading a property of a JavaScript value: undefined when it is not there.
Undefined == "undefined"
Field(data, name) == IF name \in DOMAIN data THEN data[name] ELSE Undefined

\* String.prototype.trim: the text without its leading and trailing
\* whitespace.
Whitespace == {" ", "\t", "\n"}

RECURSIVE trimStart(_)
trimStart(s) ==
    IF s # <<>> /\ Head(s) \in Whitespace THEN trimStart(Tail(s)) ELSE s

RECURSIVE trimEnd(_)
trimEnd(s) ==
    IF s # <<>> /\ s[Len(s)] \in Whitespace THEN trimEnd(SubSeq(s, 1, Len(s) - 1)) ELSE s

trim(s) == trimEnd(trimStart(s))

\* hasDiagram without the trim.
hasDiagram_NoTrim(data) ==
    /\ "diagram" \in DOMAIN data
    /\ data.diagram # <<>>

\* ResponseRenderer: !!data.diagram && data.diagram.trim().length > 0.
hasDiagram(data) ==
    /\ "diagram" \in DOMAIN data
    /\ data.diagram # <<>>
    /\ Len(trim(data.diagram)) > 0

\* ResponseRenderer: the elements it returns, in document order.
ResponseRenderer(data) ==
    (IF hasDiagram(data)
     THEN << [tag |-> "h4", text |-> "Diagram"],
             [tag |-> "SVGRenderer", svgContent |-> data.diagram] >>
     ELSE <<>>)
    \o (IF hasDiagram(data) THEN << [tag |-> "h4", text |-> "Explanation"] >> ELSE <<>>)
    \o << [tag |-> "LatexRenderer", content |-> Field(data, "answer")] >>

\* The class of the box around the answer.
ErrorTreatment == "bg-red-100 text-red-700"
SuccessTreatment == "bg-green-100 text-green-700"

\* The treatment chosen by answer.status !== 'success'.
Treatment_UnlessSuccess(a) ==
    IF Field(a, "status") # "success" THEN ErrorTreatment ELSE SuccessTreatment

Treatment(a) ==
    IF Field(a, "status") = "error" THEN ErrorTreatment ELSE SuccessTreatment

\* The answer block of ImageUploader: {answer && ... <ResponseRenderer />}.
RenderedAnswer == IF answer = NULL THEN <<>> ELSE ResponseRenderer(answer)

\* SVGRenderer parsing the diagram as XML, which rejects a document that is
\* not well formed.
SVGRenderer_StrictParse(svgContent) ==
    [ innerHTML |-> svgContent,
      threw |-> svgContent = <<>> \/ svgContent[Len(svgContent)] # ">" ]

\* The effect of SVGRenderer: the diagram text is assigned to innerHTML of
\* the container.  The HTML fragment parser behind innerHTML accepts every
\* string: markup it cannot interpret is repaired or dropped, nothing throws.
SVGRenderer(svgContent) ==
    [ innerHTML |-> svgContent, threw |-> FALSE ]

\* What stays on the page once the effects of the answer block have run: no
\* error boundary surrounds the block, so an effect that threw would take
\* the rendered elements away.
CommittedAnswer ==
    LET out == RenderedAnswer IN
    IF \E i \in DOMAIN out :
          out[i].tag = "SVGRenderer" /\ SVGRenderer(out[i].svgContent).threw
    THEN <<>>
    ELSE out

\* The component is unmounted (the page is left).  ImageUploader registers
\* no effect cleanup, so nothing runs: the streams keep their state.  What the
\* callbacks still pending do afterwards is not followed.
unmount ==
    /\ mounted
    /\ UNCHANGED arVars
    /\ mounted' = FALSE
    /\ last' = Event("unmount", NoImage, "", NULL)
    /\ UNCHANGED <<selectedImage, answer, loading, showCamera, videoSrc, liveStreams,
                   nStreams, pendingCam, nImages, reads, blobs, upl, lastStream>>

\* The number of POST requests sent to /ask so far.
RECURSIVE SumSent(_)
SumSent(S) ==
    IF S = {} THEN 0
    ELSE LET u == CHOOSE x \in S : TRUE IN upl[u].sent + SumSent(S \ {u})

PostsSent == SumSent(Images)

Next ==
    \/ handleFileSelect
    \/ handleFileSelectNoFile
    \/ \E f \in Images : readerLoadEnd(f)
    \/ startCamera
    \/ \E s \in Streams : getUserMediaResolves(s)
    \/ \E s \in Streams : getUserMediaRejects(s)
    \/ captureImage
    \/ \E c \in Images, frame \in BOOLEAN : toBlobCallback([img |-> c, frame |-> frame])
    \/ \E u \in Images, o \in Outcomes : requestCompletes(u, o)
    \/ unmount

Spec == Init /\ [][Next]_vars

\* The event loop runs every callback whose work has settled: requests end,
\* toBlob and FileReader call back, getUserMedia settles.  The user's
\* actions are under no such obligation.
FairSpec ==
    /\ Spec
    /\ \A u \in Images : WF_vars(\E o \in Outcomes : requestCompletes(u, o))
    /\ WF_vars(\E c \in Images, frame \in BOOLEAN :
                   toBlobCallback([img |-> c, frame |-> frame]))
    /\ WF_vars(\E f \in Images : readerLoadEnd(f))
    /\ WF_vars(\E s \in Streams : getUserMediaResolves(s) \/ getUserMediaRejects(s))

\* handleARClick of ViewOptions with a diagram to show: AR3DView is mounted
\* with the initial values of its useState calls, and its visibility effect
\* runs for the first time and starts the 5000 ms timer.
handleARClick ==
    /\ ~showAR
    /\ showAR' = TRUE
    /\ isModelVisible' = FALSE
    /\ extrusion' = ExtrusionDefault
    /\ debugInfo' = ""
    /\ forceTimer' = TRUE
    /\ canvasTimer' = "none"
    /\ choice' = "none"
    /\ arLast' = "handleARClick"
    /\ UNCHANGED uploaderVars

\* handleARClose: AR3DView is unmounted.  The cleanup of the effect clears
\* the 5000 ms timer; the 1000 ms timer is not cleared, but its setState
\* reaches a component that is gone.
handleARClose ==
    /\ showAR
    /\ showAR' = FALSE
    /\ isModelVisible' = FALSE
    /\ extrusion' = ExtrusionDefault
    /\ debugInfo' = ""
    /\ forceTimer' = FALSE
    /\ canvasTimer' = "none"
    /\ choice' = "none"
    /\ arLast' = "handleARClose"
    /\ UNCHANGED uploaderVars

\* Canvas onCreated: the 1000 ms timer is started.
canvasCreated ==
    /\ showAR
    /\ canvasTimer = "none"
    /\ canvasTimer' = "pending"
    /\ debugInfo' = "3D Canvas initialized"
    /\ arLast' = "canvasCreated"
    /\ UNCHANGED <<showAR, isModelVisible, extrusion, forceTimer, choice>>
    /\ UNCHANGED uploaderVars

\* The 1000 ms timer of onCreated fires: setIsModelVisible(true).  When
\* that changes isModelVisible, the effect runs again: it clears its timer
\* and starts a new one.
canvasTimerFires ==
    /\ showAR
    /\ canvasTimer = "pending"
    /\ canvasTimer' = "fired"
    /\ isModelVisible' = TRUE
    /\ forceTimer' = IF isModelVisible THEN forceTimer ELSE TRUE
    /\ arLast' = "canvasTimerFires"
    /\ UNCHANGED <<showAR, extrusion, debugInfo, choice>>
    /\ UNCHANGED uploaderVars

\* The 5000 ms timer of the effect fires.  The effect depends on
\* isModelVisible, so the value its callback tests is the current one: a
\* hidden model is made visible, and the effect runs again.
forceTimerFires ==
    /\ showAR
    /\ forceTimer
    /\ IF ~isModelVisible
       THEN /\ isModelVisible' = TRUE
            /\ debugInfo' = "Forced model visibility after timeout"
            /\ forceTimer' = TRUE
       ELSE /\ forceTimer' = FALSE
            /\ UNCHANGED <<isModelVisible, debugInfo>>
    /\ arLast' = "forceTimerFires"
    /\ UNCHANGED <<showAR, extrusion, canvasTimer, choice>>
    /\ UNCHANGED uploaderVars

\* The button labelled Hide Model or Show Model:
\* setIsModelVisible(!isModelVisible); the effect runs again.
toggleModel ==
    /\ showAR
    /\ isModelVisible' = ~isModelVisible
    /\ choice' = IF isModelVisible THEN "hide" ELSE "show"
    /\ forceTimer' = TRUE
    /\ arLast' = "toggleModel"
    /\ UNCHANGED <<showAR, extrusion, debugInfo, canvasTimer>>
    /\ UNCHANGED uploaderVars

\* The button Show Model Anyway, rendered while the model is not visible.
showModelAnyway ==
    /\ showAR
    /\ ~isModelVisible
    /\ isModelVisible' = TRUE
    /\ choice' = "show"
    /\ forceTimer' = TRUE
    /\ arLast' = "showModelAnyway"
    /\ UNCHANGED <<showAR, extrusion, debugInfo, canvasTimer>>
    /\ UNCHANGED uploaderVars

\* The Extrusion Depth slider is moved to e.
setExtrusion(e) ==
    /\ showAR
    /\ e # extrusion
    /\ extrusion' = e
    /\ arLast' = "setExtrusion"
    /\ UNCHANGED <<showAR, isModelVisible, debugInfo, forceTimer, canvasTimer, choice>>
    /\ UNCHANGED uploaderVars

ARNext ==
    \/ handleARClick
    \/ handleARClose
    \/ canvasCreated
    \/ canvasTimerFires
    \/ forceTimerFires
    \/ toggleModel
    \/ showModelAnyway
    \/ \E e \in ExtrusionMin..ExtrusionMax : setExtrusion(e)

\* The 3D viewer on its own.
ARSpec == Init /\ [][ARNext]_vars
----------------------------------------------------------------------------
\* C1: at most one request to /ask is in flight at any time.
C1_AtMostOneInFlight == Cardinality(InFlight) <= 1

\* C2: the step in which the request of an uploadImage invocation completes,
\* by resolving or by rejecting, leaves loading false.
C2_LoadingClearedOnCompletion ==
    [][\A u \in Images :
          (upl[u].st = "inflight" /\ upl'[u].st = "done") => loading' = FALSE]_vars

C2_Witness ==
    /\ last.op = "requestCompletes"
    /\ last.kind = "network"
    /\ last.pre = "Loading"
    /\ ~loading

\* C3: when every request eventually resolves or rejects, every state with
\* loading true is eventually followed by a Presented state.
C3_LoadingLeadsToPresented == loading ~> (~loading /\ answer # NULL)

\* C4: after the request ended in a transport failure (network rejection,
\* non-2xx status, malformed body), answer is exactly the fixed error answer.
C4_TransportFailureGivesFixedError ==
    (last.op = "requestCompletes" /\ last.kind \in {"network", "status", "malformed"})
        => answer = FailAnswer

\* C5: after a successful response, answer is the response body unchanged.
C5_SuccessStoredVerbatim ==
    (last.op = "requestCompletes" /\ last.kind = "ok") => answer = last.data

C5_Witness ==
    /\ last.op = "requestCompletes"
    /\ last.kind = "ok"
    /\ "diagram" \in DOMAIN last.data
    /\ answer = last.data

\* C6: a file selection with a file and a captureImage leave answer null and
\* loading true, whatever was presented before; the file selection has sent
\* its request by then, the capture has not.
C6_NewActionClearsAnswer ==
    /\ last.op \in {"handleFileSelect", "captureImage"}
          => (answer = NULL /\ loading = TRUE)
    /\ last.op = "handleFileSelect" => upl[last.img].st = "inflight"
    /\ last.op = "captureImage" => upl[last.img].st = "none"

C6_Witness ==
    /\ last.op = "handleFileSelect"
    /\ last.pre = "Presented"
    /\ Phase = "Loading"

\* C7: loading = true and answer non-null never hold together: the UI is
\* always Idle, Loading or Presented.
C7_OnePhase == ~(loading /\ answer # NULL)

\* C8: the result of a submission that was overtaken by a second one while
\* its request was in flight is never stored in answer.
C8_OvertakenResultDiscarded ==
    \A u \in Images : upl[u].overtaken => ~upl[u].stored

\* C9: whenever a request to /ask is outstanding, loading is true.
C9_LoadingWhileOutstanding == InFlight # {} => loading

\* C10: every uploadImage invocation sends one request and writes answer
\* once, when the request completes, with the response or with the
\* synthesized error; no failure escapes uploadImage.
C10_OneRequestOneAnswer ==
    /\ \A u \in Images :
        /\ upl[u].st = "none" => (upl[u].sent = 0 /\ upl[u].writes = 0)
        /\ upl[u].st = "inflight" => (upl[u].sent = 1 /\ upl[u].writes = 0)
        /\ upl[u].st = "done" => (upl[u].sent = 1 /\ upl[u].writes = 1)
        /\ ~upl[u].escaped
    /\ last.op = "requestCompletes"
          => (answer # NULL /\ answer \in {last.data, FailAnswer})

C10_Witness ==
    /\ last.op = "requestCompletes"
    /\ last.kind = "status"
    /\ upl[last.img].st = "done"
    /\ answer = FailAnswer

\* C11: after captureImage, every track of the stream acquired by the
\* preceding successful startCamera is stopped.
C11_CaptureStopsStream ==
    last.op = "captureImage" => lastStream \notin liveStreams

\* C12: an acquired stream is released on every exit path: once the preview
\* is closed by captureImage, or the component is unmounted, no acquired
\* stream has live tracks.
C12_StreamsReleasedOnExit ==
    (~mounted \/ ~showCamera) => liveStreams = {}

\* C13: after getUserMedia succeeds, showCamera is true and the acquired
\* stream is the srcObject of the preview video element.
C13_PreviewShowsStream ==
    last.op = "getUserMediaResolves" => (showCamera /\ videoSrc = lastStream)

\* C14: the step in which getUserMedia rejects leaves loading, answer,
\* showCamera and selectedImage unchanged, sends no request and acquires no
\* stream.
C14_CameraFailureOnlyLogged ==
    [][(last'.op = "getUserMediaRejects" /\ pendingCam' # pendingCam)
          => UNCHANGED <<loading, answer, showCamera, selectedImage, upl, liveStreams>>]_vars

C14_Witness ==
    /\ last.op = "getUserMediaRejects"
    /\ last.pre = "Presented"
    /\ Phase = "Presented"
    /\ answer # FailAnswer

\* C15: an answer with status "error" is rendered without a Diagram
\* section and without an Explanation header.
C15_ErrorRendersNoDiagram ==
    (answer # NULL /\ Field(answer, "status") = "error")
        => \A i \in DOMAIN RenderedAnswer :
              RenderedAnswer[i].tag \notin {"h4", "SVGRenderer"}

\* C16: when diagram is absent, empty or only whitespace, the output is the
\* answer text alone, with no header; when diagram has a non-whitespace
\* character, the output is the Diagram header, the diagram, the
\* Explanation header and the answer text, in that order.
C16_DiagramGating ==
    answer # NULL =>
        LET out == RenderedAnswer
            nonBlank == /\ "diagram" \in DOMAIN answer
                        /\ \E i \in DOMAIN answer.diagram :
                              answer.diagram[i] \notin {" ", "\t", "\n"}
        IN  IF nonBlank
            THEN /\ Len(out) = 4
                 /\ out[1] = [tag |-> "h4", text |-> "Diagram"]
                 /\ out[2] = [tag |-> "SVGRenderer", svgContent |-> answer.diagram]
                 /\ out[3] = [tag |-> "h4", text |-> "Explanation"]
                 /\ out[4] = [tag |-> "LatexRenderer", content |-> Field(answer, "answer")]
            ELSE out = << [tag |-> "LatexRenderer", content |-> Field(answer, "answer")] >>

C16_Witness ==
    /\ answer # NULL
    /\ "diagram" \in DOMAIN answer
    /\ answer.diagram = BlankText
    /\ Len(RenderedAnswer) = 1

\* C17 as stated: once no encoding callback is pending, the number of POST
\* requests equals the number of file selections with a file plus captures.
C17_OneRequestPerAction == blobs = {} => PostsSent = nImages

\* C17 as amended: every file selection with a file has sent exactly one
\* request, every capture whose encoding yielded a blob has sent exactly one,
\* a capture whose encoding is pending or yielded no blob has sent none, and
\* no request, failed or not, is sent again.
C17_OneRequestPerImage ==
    /\ \A u \in Images :
          upl[u].sent = IF \/ upl[u].src = "file"
                           \/ (upl[u].src = "capture" /\ upl[u].blob = "blob")
                        THEN 1 ELSE 0
    /\ PostsSent = Cardinality({u \in Images : upl[u].src = "file" \/ upl[u].blob = "blob"})

C17_Witness ==
    /\ \E u \in Images : upl[u].src = "capture" /\ upl[u].blob = "null"
    /\ \E v \in Images : /\ upl[v].src = "file"
                         /\ upl[v].st = "done"
                         /\ upl[v].sent = 1
    /\ answer = FailAnswer
    /\ PostsSent = 1
    /\ nImages = 2

\* C18: a request in flight stays in flight through every step of another
\* handler, and the step that ends it stores its result in answer and clears
\* loading.
C18_NoAbort ==
    [][\A u \in Images :
          upl[u].st = "inflight" =>
              \/ upl'[u].st = "inflight" /\ upl'[u].writes = 0
              \/ /\ upl'[u].st = "done"
                 /\ upl'[u].stored
                 /\ answer' # NULL
                 /\ answer' \in {last'.data, FailAnswer}
                 /\ loading' = FALSE]_vars

C18_Witness ==
    /\ last.op = "requestCompletes"
    /\ upl[last.img].overtaken
    /\ upl[last.img].stored
    /\ \E v \in Images : upl[v].src = "capture" /\ v > last.img
    /\ answer # NULL

\* C19: at most one stream acquired by startCamera has live tracks.
C19_OneLiveStream == Cardinality(liveStreams) <= 1

\* C20: after the request of a submission threw, the UI is Presented with
\* loading false and shows the fixed failure message in the error treatment;
\* a displayed answer has the error treatment exactly when its status is
\* "error" and the success treatment otherwise.
C20_FailureShownAsError ==
    /\ (last.op = "requestCompletes" /\ last.kind \in {"network", "status"})
          => /\ ~loading
             /\ answer # NULL
             /\ RenderedAnswer =
                   << [tag |-> "LatexRenderer",
                       content |-> "Failed to process the image. Please try again."] >>
             /\ Treatment(answer) = "bg-red-100 text-red-700"
    /\ answer # NULL
          => /\ Treatment(answer) = "bg-red-100 text-red-700"
                   <=> Field(answer, "status") = "error"
             /\ Treatment(answer) = "bg-green-100 text-green-700"
                   <=> Field(answer, "status") # "error"

C20_Witness ==
    /\ last.op = "requestCompletes"
    /\ last.kind = "network"
    /\ Phase = "Presented"
    /\ Treatment(answer) = ErrorTreatment
    /\ RenderedAnswer[1].content = FailAnswer.answer

\* C21: every request sent is a POST to /ask whose form has exactly the two
\* fields image and question; image is the payload the handler passed in and
\* question is the same constant string on the file and on the capture path.
C21_RequestShape ==
    \A u \in Images :
        upl[u].st # "none" =>
            /\ upl[u].req.method = "POST"
            /\ upl[u].req.path = "/ask"
            /\ DOMAIN upl[u].req.form = {"image", "question"}
            /\ upl[u].req.form.image = u
            /\ upl[u].req.form.question =
                  "Can you review this image and solve the question with step by step reasoning?"

C21_Witness ==
    \E u, v \in Images :
        /\ upl[u].src = "file" /\ upl[u].st # "none"
        /\ upl[v].src = "capture" /\ upl[v].st # "none"
        /\ upl[u].req.form.question = upl[v].req.form.question
        /\ upl[u].req.form.image # upl[v].req.form.image

\* C22: for every displayed Answer document, whatever its diagram is (well
\* formed, malformed, blank or absent), the answer text section is on the
\* page, as the last element and with the text of the answer.
C22_AnswerTextAlwaysRendered ==
    (answer # NULL /\ "answer" \in DOMAIN answer) =>
        LET out == CommittedAnswer IN
        /\ out # <<>>
        /\ out[Len(out)] = [tag |-> "LatexRenderer", content |-> answer.answer]
        /\ Cardinality({i \in DOMAIN out : out[i].tag = "LatexRenderer"}) = 1

C22_Witness ==
    /\ answer # NULL
    /\ "diagram" \in DOMAIN answer
    /\ answer.diagram = MalformedSvg
    /\ Len(CommittedAnswer) = 4
    /\ CommittedAnswer[2].svgContent = MalformedSvg
    /\ CommittedAnswer[4].content = "Broken diagram."

\* C23: in captureImage the frame is drawn into the canvas before any track
\* of the stream is stopped, and when captureImage has finished the preview
\* is closed.
C23_DrawThenStopThenClose ==
    last.op = "captureImage" =>
        LET steps == last.data IN
        /\ \A i, j \in DOMAIN steps :
              (steps[i] = "drawImage" /\ steps[j] = "stop") => i < j
        /\ \E i \in DOMAIN steps : steps[i] = "drawImage"
        /\ ~showCamera

\* C24: the step in which getUserMedia resolves leaves showCamera true and
\* answer null, leaves loading and selectedImage as they were and sends no
\* request.  It does not set loading: from Idle and from Presented the UI
\* goes to Idle, and the UI is in Loading afterwards only where loading was
\* true before.
C24_StartCameraEffect ==
    [][(last'.op = "getUserMediaResolves" /\ pendingCam' # pendingCam)
          => /\ showCamera'
             /\ answer' = NULL
             /\ UNCHANGED <<loading, selectedImage, upl, nImages, reads, blobs>>
             /\ last'.pre \in {"Idle", "Presented"} => Phase' = "Idle"
             /\ Phase' = "Loading" => loading]_vars

C24_Witness ==
    /\ last.op = "getUserMediaResolves"
    /\ last.pre = "Presented"
    /\ Phase = "Idle"
    /\ showCamera
    /\ selectedImage # NoImage

\* C25: once every request sent has completed, the displayed answer is the
\* result of the submission started last.  The answer displayed then is the
\* result of the request that completed last, and that submission is the one
\* started last exactly when no other request was sent while it was in
\* flight.
C25_LatestSubmissionWins ==
    (last.op = "requestCompletes" /\ InFlight = {})
        => ~upl[last.img].overtaken

\* C26: whenever loading is true, a request is outstanding or an encoding
\* callback is pending.
C26_LoadingHasCause == loading => (InFlight # {} \/ blobs # {})

\* C27: while the camera preview is open, no answer is displayed.
C27_NoAnswerDuringPreview == showCamera => answer = NULL

\* C28: the step of a change event without a file leaves answer, loading,
\* selectedImage and showCamera as they were and sends no request; the step
\* of an encoding callback that got no blob sends no request and leaves
\* the preview image as it was.
C28_NoPayloadNoEffect ==
    [][/\ last'.op = "handleFileSelectNoFile"
          => UNCHANGED <<answer, loading, selectedImage, showCamera, nImages,
                         reads, blobs, upl>>
       /\ (last'.op = "toBlobCallback" /\ last'.kind = "null" /\ blobs' # blobs)
          => /\ UNCHANGED <<selectedImage, answer, showCamera>>
             /\ \A u \in Images : /\ upl'[u].sent = upl[u].sent
                                   /\ upl'[u].st = upl[u].st
                                   /\ upl'[u].req = upl[u].req]_vars

C28_Witness ==
    /\ last.op = "toBlobCallback"
    /\ last.kind = "null"
    /\ upl[last.img].st = "none"
    /\ selectedImage # NoImage
    /\ selectedImage # last.img

\* C29: once the user has hidden the model, a step that makes it visible
\* again is the user's Show Model (the toggle button or Show Model Anyway),
\* never a timer.
C29_HiddenUntilShown ==
    [][(choice = "hide" /\ ~isModelVisible /\ isModelVisible')
          => arLast' \in {"toggleModel", "showModelAnyway"}]_vars
====
